---- MODULE Spec2Model ----
(***************************************************************************)
(* A model of the dukascopy tick downloader: the locator builder           *)
(* (build_day_urls, build_urls), the key decoder (decode_url), the record  *)
(* decoder and writer (process_response, write_to_file) and the fetch      *)
(* orchestrator (download_urls, download) of src/src/downloader.rs, with   *)
(* the stand-alone variant of the same pipeline in src/src/main.rs.        *)
(*                                                                         *)
(* A string is a sequence of one-character strings.  The two fixed pieces  *)
(* of a locator, the host prefix and the "h_ticks.bi5" suffix, are kept as *)
(* one element each: neither holds an upper-case letter, so the regular    *)
(* expression of decode_url can never start a match inside them.           *)
(***************************************************************************)
EXTENDS Integers, Sequences, FiniteSets, TLC

\* ------------------------------------------------------------------ bounds

\* Longest instrument name drawn for the locator functions.
MaxSymLen == 2

\* Longest date range, in days, drawn for the locator functions.
MaxSpan == 2

\* Longest date range, in days, drawn for a download run.
MaxDays == 2

\* Largest retry_count drawn for a download run.
MaxRetry == 2

\* Number of responses of one run that are anything other than a plain 404.
MaxEvents == 2

\* The provider has data for the last MaxActive hours of the range only: every
\* earlier locator gets a plain 404.
MaxActive == 2

\* How many younger fetches may finish before the oldest one in flight.
MaxWaiting == 1

\* The provider sends a body to at most MaxBodies fetches at a time: no more
\* closures than that are between the response and their end at once.
MaxBodies == 1

\* A response comes in while at most MaxUnstarted fetches the stream has pulled
\* still wait for their first poll.
MaxUnstarted == 0

\* Largest number of records in a buffer drawn for the record decoder.
MaxRecords == 2

\* Largest retry_count drawn for the metadata fetch.
MaxMetaRetry == 3

\* ------------------------------------------------------- program constants

\* for h in 0..24
HoursPerDay == 24

\* .buffered(24)
ConcurrencyLimit == 24

\* .buffer_unordered(24 * 15)
MainConcurrencyLimit == 24 * 15

\* pos += 20
RecordSize == 20

\* retry_count: u16
U16Modulus == 65536

\* let mut retry_count = 3;
MainRetryCount == 3

\* ------------------------------------------------------------------- text

Host == "http://datafeed.dukascopy.com/datafeed/"

TicksSuffix == "h_ticks.bi5"

DigitChars == <<"0", "1", "2", "3", "4", "5", "6", "7", "8", "9">>

LowerChars ==
  <<"a", "b", "c", "d", "e", "f", "g", "h", "i", "j", "k", "l", "m",
    "n", "o", "p", "q", "r", "s", "t", "u", "v", "w", "x", "y", "z">>

UpperChars ==
  <<"A", "B", "C", "D", "E", "F", "G", "H", "I", "J", "K", "L", "M",
    "N", "O", "P", "Q", "R", "S", "T", "U", "V", "W", "X", "Y", "Z">>

Range(s) == {s[i] : i \in DOMAIN s}

UpperSet == Range(UpperChars)

\* [[:upper:]]
IsUpper(c) == c \in UpperSet

\* A decimal digit outside ASCII, ARABIC-INDIC DIGIT THREE, written by its
\* code point: \d takes it, the number parser does not.
OtherDigitChars == <<"U+0663">>

AsciiDigitSet == Range(DigitChars)

UnicodeDigitSet == Range(DigitChars) \cup Range(OtherDigitChars)

\* \d: any decimal digit of Unicode
IsDigit(c) == c \in UnicodeDigitSet

\* Lower-case letters outside ASCII and what Unicode upper-cases them to; one
\* of them becomes two characters.
OtherLowerChars == <<"é", "ñ", "ß">>

OtherUpperChars == <<(<<"É">>), (<<"Ñ">>), (<<"S", "S">>)>>

\* char::to_uppercase on one character: the characters it yields
ToUpperChar(c) ==
  IF \E i \in DOMAIN LowerChars : LowerChars[i] = c
    THEN <<UpperChars[CHOOSE i \in DOMAIN LowerChars : LowerChars[i] = c]>>
  ELSE IF \E i \in DOMAIN OtherLowerChars : OtherLowerChars[i] = c
    THEN OtherUpperChars[CHOOSE i \in DOMAIN OtherLowerChars :
                           OtherLowerChars[i] = c]
  ELSE <<c>>

\* str::to_uppercase: every character upper-cased, in order
RECURSIVE to_uppercase(_)
to_uppercase(s) ==
  IF s = <<>> THEN <<>> ELSE ToUpperChar(Head(s)) \o to_uppercase(Tail(s))

\* format!("{}", n) of an integer
RECURSIVE FormatNat(_)
FormatNat(n) ==
  IF n < 10 THEN <<DigitChars[n + 1]>>
  ELSE FormatNat(n \div 10) \o <<DigitChars[(n % 10) + 1]>>

FormatInt(n) == IF n < 0 THEN <<"-">> \o FormatNat(0 - n) ELSE FormatNat(n)

\* format!("{:0>width$}", n, width = 2): right-aligned, filled with '0'
Pad2(n) ==
  LET s == FormatInt(n)
  IN  IF Len(s) < 2 THEN <<"0">> \o s ELSE s

DigitValue(c) == (CHOOSE i \in DOMAIN DigitChars : DigitChars[i] = c) - 1

\* str::parse::<u32>() / parse::<i32>() of a run of digits
RECURSIVE ParseDigits(_)
ParseDigits(s) ==
  IF Len(s) = 0 THEN 0
  ELSE 10 * ParseDigits(SubSeq(s, 1, Len(s) - 1)) + DigitValue(s[Len(s)])

\* ------------------------------------------------------------------ dates

\* chrono::Date<Utc> as [y, m, d], m in 1..12
IsLeapYear(y) == (y % 4 = 0 /\ y % 100 # 0) \/ y % 400 = 0

DaysInMonth(y, m) ==
  IF m = 2 THEN (IF IsLeapYear(y) THEN 29 ELSE 28)
  ELSE IF m \in {4, 6, 9, 11} THEN 30 ELSE 31

\* from + Duration::days(1)
NextDay(dt) ==
  IF dt.d < DaysInMonth(dt.y, dt.m) THEN [dt EXCEPT !.d = dt.d + 1]
  ELSE IF dt.m < 12 THEN [y |-> dt.y, m |-> dt.m + 1, d |-> 1]
  ELSE [y |-> dt.y + 1, m |-> 1, d |-> 1]

RECURSIVE AddDays(_, _)
AddDays(dt, n) == IF n = 0 THEN dt ELSE AddDays(NextDay(dt), n - 1)

\* from < end on Date<Utc>
DateLess(a, b) ==
  \/ a.y < b.y
  \/ a.y = b.y /\ a.m < b.m
  \/ a.y = b.y /\ a.m = b.m /\ a.d < b.d

\* ------------------------------------------------------- locator builder

UrlOf(instrument, y, m0, d, h) ==
  <<Host>> \o instrument \o <<"/">> \o FormatInt(y) \o <<"/">> \o Pad2(m0)
    \o <<"/">> \o Pad2(d) \o <<"/">> \o Pad2(h) \o <<TicksSuffix>>

\* downloader.rs: the instrument is formatted as given
build_day_urls(instrument, dt) ==
  [i \in 1..HoursPerDay |-> UrlOf(instrument, dt.y, dt.m - 1, dt.d, i - 1)]

\* main.rs: the instrument is upper-cased
main_build_day_urls(instrument, dt) ==
  [i \in 1..HoursPerDay |->
     UrlOf(to_uppercase(instrument), dt.y, dt.m - 1, dt.d, i - 1)]

DayUrls(prog, instrument, dt) ==
  IF prog = "main" THEN main_build_day_urls(instrument, dt)
  ELSE build_day_urls(instrument, dt)

\* A variant that takes the end date into the range: while from <= end.
RECURSIVE BuildFromInclusive(_, _, _, _, _)
BuildFromInclusive(prog, instrument, from, end, acc) ==
  IF DateLess(from, end) \/ from = end
    THEN BuildFromInclusive(prog, instrument, NextDay(from), end,
                            acc \o DayUrls(prog, instrument, from))
    ELSE acc

\* while from < end { urls.extend(build_day_urls(..)); from = from + 1 day }
RECURSIVE BuildFrom(_, _, _, _, _)
BuildFrom(prog, instrument, from, end, acc) ==
  IF DateLess(from, end)
    THEN BuildFrom(prog, instrument, NextDay(from), end,
                   acc \o DayUrls(prog, instrument, from))
    ELSE acc

build_urls(prog, instrument, start, end) ==
  BuildFrom(prog, instrument, start, end, <<>>)

\* ----------------------------------------------------------- key decoder

\* The last position of the run of upper-case letters that starts at p.
RECURSIVE UpperRunEnd(_, _)
UpperRunEnd(url, p) ==
  IF p < Len(url) /\ IsUpper(url[p + 1]) THEN UpperRunEnd(url, p + 1) ELSE p

\* [[:upper:]]+/\d{4}/\d{2}/\d{2}/\d{2} matches at position p
MatchAt(url, p) ==
  /\ IsUpper(url[p])
  /\ LET q == UpperRunEnd(url, p)
     IN  /\ q + 14 <= Len(url)
         /\ \A k \in {1, 6, 9, 12} : url[q + k] = "/"
         /\ \A k \in {2, 3, 4, 5, 7, 8, 10, 11, 13, 14} : IsDigit(url[q + k])

NoMatch == [matched |-> FALSE]

\* parse::<i32>() / parse::<u32>() take ASCII digits only; anything else is an
\* Err, and the unwrap panics.
Parses(s) == \A i \in DOMAIN s : s[i] \in AsciiDigitSet

\* The named groups of the match whose run of letters is url[p..q].
Captures(url, p, q) ==
  IF \A k \in {2, 3, 4, 5, 7, 8, 10, 11, 13, 14} : Parses(<<url[q + k]>>)
    THEN [matched |-> TRUE,
          symbol  |-> SubSeq(url, p, q),
          year    |-> ParseDigits(SubSeq(url, q + 2, q + 5)),
          month   |-> ParseDigits(SubSeq(url, q + 7, q + 8)) + 1,
          day     |-> ParseDigits(SubSeq(url, q + 10, q + 11)),
          hour    |-> ParseDigits(SubSeq(url, q + 13, q + 14))]
    ELSE NoMatch

\* The leftmost position from p on at which the expression matches, 0 when
\* there is none.
RECURSIVE MatchFrom(_, _)
MatchFrom(url, p) ==
  IF p > Len(url) THEN 0
  ELSE IF MatchAt(url, p) THEN p
  ELSE MatchFrom(url, p + 1)

FirstMatch(url) == MatchFrom(url, 1)

\* regex_captures!(...).unwrap() and the four parse().unwrap(): the fields of
\* the leftmost match, or a panic (NoMatch)
decode_url(url) ==
  LET p == FirstMatch(url)
  IN  IF p = 0 THEN NoMatch ELSE Captures(url, p, UpperRunEnd(url, p))

\* -------------------------------------------------------- record decoder

\* read_i32::<BigEndian> of four bytes (two's complement)
ReadI32(b) ==
  LET hi == IF b[1] >= 128 THEN b[1] - 256 ELSE b[1]
  IN  ((hi * 256 + b[2]) * 256 + b[3]) * 256 + b[4]

\* read_f32::<BigEndian>: the four bytes are the bit pattern of the float
ReadF32Bits(b) == <<b[1], b[2], b[3], b[4]>>

\* The largest power of two, starting from p, that is at most n.
RECURSIVE Pow2Below(_, _)
Pow2Below(n, p) == IF n \div 2 >= p THEN Pow2Below(n, 2 * p) ELSE p

F32(sig, scale) == [sig |-> sig, scale |-> scale]

\* Round-to-nearest, ties to even: 0 or 1 to add to the significand m.
RoundUp(m, rem, q) ==
  IF 2 * rem < q THEN 0 ELSE IF 2 * rem > q THEN 1 ELSE m % 2

\* The float nearest to m * q + rem, 0 <= rem < q.
RoundTo(m, rem, q) ==
  LET r == m + RoundUp(m, rem, q)
  IN  IF r = 16777216 /\ q > 1 THEN F32(8388608, 2 * q) ELSE F32(r, q)

\* The unit of the last place of the float nearest to a > 0.
Ulp(a) ==
  LET p == Pow2Below(a, 1)
  IN  IF p < 16777216 THEN 1 ELSE p \div 8388608

AsF32Abs(a) ==
  IF a = 0 THEN F32(0, 1)
  ELSE LET u == Ulp(a) IN RoundTo(a \div u, a % u, u)

\* `as f32` of an i32: the nearest value with a 24-bit significand, ties to
\* even.  The float sig * scale is kept as the pair, scale a power of two.
AsF32(i) ==
  IF i = (0 - 2147483647) - 1 THEN F32(0 - 8388608, 256)
  ELSE IF i < 0
    THEN LET f == AsF32Abs(0 - i) IN F32(0 - f.sig, f.scale)
  ELSE AsF32Abs(i)

\* The float nearest to (q + r / d) * 2^e, ties to even, for 0 <= r < d and
\* q + r / d > 0: the quotient is doubled until it has 24 bits and rounded by
\* what is left of it.  The float sig * 2^exp is kept as the pair, with
\* 2^23 <= sig < 2^24.
RECURSIVE NearestQuot(_, _, _, _)
NearestQuot(q, r, d, e) ==
  IF q < 8388608
    THEN IF 2 * r >= d THEN NearestQuot(2 * q + 1, 2 * r - d, d, e - 1)
         ELSE NearestQuot(2 * q, 2 * r, d, e - 1)
  ELSE LET m == q + RoundUp(q, r, d)
       IN  IF m >= 16777216 THEN [sig |-> m \div 2, exp |-> e + 1]
           ELSE [sig |-> m, exp |-> e]

\* f / point of two floats, point being a whole number: the float nearest to
\* the quotient of the two.
F32Div(f, point) ==
  LET a == IF f.sig < 0 THEN 0 - f.sig ELSE f.sig
      n == NearestQuot(a \div point, a % point, point,
                       CHOOSE k \in 0..8 : 2^k = f.scale)
  IN  IF a = 0 THEN [sig |-> 0, exp |-> 0]
      ELSE IF f.sig < 0 THEN [sig |-> 0 - n.sig, exp |-> n.exp]
      ELSE n

\* A read past the end of the buffer: read_i32(..).unwrap() panics
EofPanic == [panic |-> TRUE, cause |-> "eof"]

\* Utc.ymd(..) or .and_hms(..) on something that is no calendar instant
DatePanic == [panic |-> TRUE, cause |-> "date"]

\* Utc.ymd(info.year, info.month, info.day).and_hms(info.hour, 0, 0) is there
IsInstant(info) ==
  /\ info.month \in 1..12
  /\ info.day \in 1..DaysInMonth(info.year, info.month)
  /\ info.hour \in 0..23

\* while pos < decomp_len { read ms; dt_start; four reads; records.push(..);
\* pos += 20 }
RECURSIVE DecodeFrom(_, _, _, _, _)
DecodeFrom(decomp, pos, info, point, records) ==
  IF pos < Len(decomp)
    THEN IF Len(decomp) - pos < 4 THEN EofPanic
         ELSE IF ~IsInstant(info) THEN DatePanic
         ELSE IF Len(decomp) - pos < RecordSize THEN EofPanic
           ELSE LET f(k) == SubSeq(decomp, pos + 4 * k + 1, pos + 4 * k + 4)
                    rec == [dt |-> [y |-> info.year, m |-> info.month,
                                    d |-> info.day, h |-> info.hour,
                                    ms |-> ReadI32(f(0))],
                            ask |-> F32Div(AsF32(ReadI32(f(1))), point),
                            bid |-> F32Div(AsF32(ReadI32(f(2))), point),
                            ask_vol |-> ReadF32Bits(f(3)),
                            bid_vol |-> ReadF32Bits(f(4))]
                IN  DecodeFrom(decomp, pos + RecordSize, info, point,
                               Append(records, rec))
    ELSE [panic |-> FALSE, records |-> records]

\* ---------------------------------------------------------- record writer

\* A variant that leaves the hour out of the name.
FileNameNoHour(info) ==
  info.symbol \o <<"_">> \o FormatInt(info.year) \o <<"_">> \o Pad2(info.month)
    \o <<"_">> \o Pad2(info.day) \o <<"_">> \o <<TicksSuffix>>

\* A variant that formats month, day and hour with "{}": no padding.
FileNameUnpadded(info) ==
  info.symbol \o <<"_">> \o FormatInt(info.year) \o <<"_">>
    \o FormatInt(info.month) \o <<"_">> \o FormatInt(info.day) \o <<"_">>
    \o FormatInt(info.hour) \o <<TicksSuffix>>

\* "{}_{}_{:0>2}_{:0>2}_{:0>2}h_ticks.bi5"
FileName(info) ==
  info.symbol \o <<"_">> \o FormatInt(info.year) \o <<"_">> \o Pad2(info.month)
    \o <<"_">> \o Pad2(info.day) \o <<"_">> \o Pad2(info.hour) \o <<TicksSuffix>>

Row(r) == <<r.dt, r.ask, r.bid, r.ask_vol, r.bid_vol>>

\* records.iter().map(format!(..)).collect().join("\n"): one line per record
FileContent(records) == [i \in DOMAIN records |-> Row(records[i])]

\* main.rs writes this line first
MainHeader == "datetime, ask, bid, ask_vol, bid_vol"

\* What the file system does for one output file: whether File::create goes
\* through, how many whole lines it takes before a write fails (Unlimited:
\* none fails), and whether the failing write leaves a piece of the next line.
Fs(create, lines, part) == [create |-> create, lines |-> lines, part |-> part]

Unlimited == 0 - 1

FsOk == Fs(TRUE, Unlimited, FALSE)

FsNoCreate == Fs(FALSE, Unlimited, FALSE)

\* File systems that fail a write: at once, after a piece of the first line,
\* after one whole line.
WriteLimits == {Fs(TRUE, 0, FALSE), Fs(TRUE, 0, TRUE), Fs(TRUE, 1, FALSE)}

FsOutcomes == {FsOk, FsNoCreate} \cup WriteLimits

\* csv.write_all(..) of some lines after those already in the file.  The file
\* of tokio copies the bytes into its buffer, hands them to a blocking write
\* and returns Ok at once (ok); writing nothing does not even do that.  The
\* lines of one file fit the buffer.  kept: the blocking write took all the
\* bytes, else the next call on the file returns its error; content, torn:
\* the file once the blocking write has run.
WriteAll(content, lines, fs) ==
  IF lines = <<>> \/ fs.lines = Unlimited
       \/ Len(content) + Len(lines) <= fs.lines
    THEN [ok |-> TRUE, kept |-> TRUE, content |-> content \o lines,
          torn |-> FALSE]
    ELSE [ok |-> TRUE, kept |-> FALSE,
          content |-> content \o SubSeq(lines, 1, fs.lines - Len(content)),
          torn |-> fs.part]

\* A file of the output directory: the whole lines in it and whether a piece
\* of a further line follows.  done: write_to_file returned Ok; upto: the
\* call that returned its result; waits: the awaits at which it waited for a
\* blocking operation on the file.
File(name, content, torn, done, upto, waits) ==
  [ok |-> TRUE, done |-> done, name |-> name, content |-> content,
   torn |-> torn, upto |-> upto, waits |-> waits]

\* The awaits of write_to_file, in order
WriteAwaits(prog) ==
  IF prog = "main" THEN <<"create", "header", "write", "flush">>
  ELSE <<"create", "write", "flush">>

\* write_to_file run to its end: whether it returned Ok (done) and the file
\* it leaves behind (ok: there is one).  It waits for File::create; a
\* write_all returns at once unless a blocking write is under way, which it
\* waits for first (the second write_all of main.rs, when it has bytes of
\* its own), returning the error of that write; flush waits for the write
\* under way, if there is one, and returns its result.
write_to_file(prog, info, records, fs) ==
  LET lines == FileContent(records)
      head == IF prog = "main" THEN WriteAll(<<>>, <<MainHeader>>, fs)
              ELSE WriteAll(<<>>, <<>>, fs)
      body == WriteAll(head.content, lines, fs)
      last == IF head.kept THEN body ELSE head
  IN  IF ~fs.create
        THEN [ok |-> FALSE, done |-> FALSE, upto |-> "create",
              waits |-> <<"create">>]
      ELSE IF ~head.kept /\ lines # <<>>
        THEN File(FileName(info), head.content, head.torn, FALSE, "write",
                  <<"create", "write">>)
      ELSE File(FileName(info), last.content, last.torn, last.kept, "flush",
                SelectSeq(WriteAwaits(prog),
                          LAMBDA a : \/ a = "create"
                                     \/ a = "write" /\ prog = "main"
                                                    /\ lines # <<>>
                                     \/ a = "flush" /\ (prog = "main"
                                                         \/ lines # <<>>)))

\* The file in the directory once the blocking operation write_to_file waits
\* for at the await at is done, w being what the whole call leaves: empty
\* after File::create, the header line after the first write of main.rs, and
\* what w says after its last one.
FileAfter(w, at) ==
  IF at = w.waits[Len(w.waits)] THEN w
  ELSE IF at = "create" THEN File(w.name, <<>>, FALSE, FALSE, at, <<at>>)
  ELSE File(w.name, <<MainHeader>>, FALSE, FALSE, at, <<"create", at>>)

\* ------------------------------------------------------------ responses

\* What the provider and the file system do for one request.  len is the
\* body length isahc reports, -1 when it reports none.
Response(kind, status, len, copyOk, lzmaOk, decomp, fs) ==
  [kind |-> kind, status |-> status, len |-> len, copyOk |-> copyOk,
   lzmaOk |-> lzmaOk, decomp |-> decomp, fs |-> fs]

UnknownLen == 0 - 1

TransportError == Response("Err", 0, 0, TRUE, TRUE, <<>>, FsOk)

NotFound == Response("Http", 404, 0, TRUE, TRUE, <<>>, FsOk)

ServerError == Response("Http", 500, 0, TRUE, TRUE, <<>>, FsOk)

\* One tick: 5 ms after the hour, ask 123456, bid 123450, volumes 1.0 and 2.5
OneRecord ==
  <<0, 0, 0, 5,  0, 1, 226, 64,  0, 1, 226, 58,  63, 128, 0, 0,  64, 32, 0, 0>>

\* Payloads of whole records, and one with a cut-off record at its end
Payloads == {<<>>, OneRecord}

CutPayload == OneRecord \o <<0, 0, 0>>

Responses ==
  {TransportError, NotFound, ServerError,
   Response("Http", 200, UnknownLen, TRUE, TRUE, <<>>, FsOk),
   Response("Http", 200, 0, TRUE, TRUE, <<>>, FsOk),
   Response("Http", 200, 1, FALSE, TRUE, <<>>, FsOk),
   Response("Http", 200, 1, TRUE, FALSE, <<>>, FsOk),
   Response("Http", 200, 1, TRUE, TRUE, CutPayload, FsOk)}
  \cup {Response("Http", 200, 1, TRUE, TRUE, p, fs) :
          p \in Payloads, fs \in FsOutcomes}

\* --------------------------------------------------------- process_response

MainPoint == 100000

Outcome(result, cause, file) ==
  [result |-> result, cause |-> cause, file |-> file]

NoFile == [ok |-> FALSE, done |-> FALSE]

\* meta_dict[&info.symbol] (downloader.rs) or the fixed divisor (main.rs)
HasPoint(prog, meta, info) == prog = "main" \/ info.symbol \in DOMAIN meta

PointOf(prog, meta, info) ==
  IF prog = "main" THEN MainPoint ELSE meta[info.symbol]

\* process_response run to its end
process_response(prog, url, resp, meta) ==
  IF resp.status = 200 /\ resp.len = UnknownLen
    THEN Outcome("Panic", "len", NoFile)
  ELSE IF resp.status = 200 /\ resp.len # 0
    THEN IF ~resp.copyOk THEN Outcome("Err", "copy", NoFile)
         ELSE IF ~resp.lzmaOk THEN Outcome("Panic", "lzma", NoFile)
         ELSE LET info == decode_url(url)
              IN  IF ~info.matched THEN Outcome("Panic", "regex", NoFile)
                  ELSE IF ~HasPoint(prog, meta, info)
                    THEN Outcome("Panic", "meta", NoFile)
                  ELSE LET dec == DecodeFrom(resp.decomp, 0, info,
                                             PointOf(prog, meta, info), <<>>)
                       IN  IF dec.panic THEN Outcome("Panic", dec.cause, NoFile)
                           ELSE LET w == write_to_file(prog, info, dec.records,
                                                       resp.fs)
                                IN  IF w.done THEN Outcome("Ok", "written", w)
                                    ELSE IF w.upto = "create"
                                      THEN Outcome("Err", "create", w)
                                    ELSE Outcome("Err", "write", w)
  ELSE Outcome("Ok", "nodata", NoFile)

\* The awaits at which the closure of download_urls waits on its way to an
\* outcome: the request, response.copy_to, and those of write_to_file.
Waits(out) ==
  IF out.cause \in {"error", "status", "nodata", "len"} THEN <<"get">>
  ELSE IF out.cause \in {"copy", "lzma", "regex", "meta", "eof", "date"}
    THEN <<"get", "copy">>
  ELSE <<"get", "copy">> \o out.file.waits

\* The last of them
LastAwait(out) == Waits(out)[Len(Waits(out))]

\* ------------------------------------------------------------ download_urls

NoneV == <<>>

Failed(url, cause) ==
  [panic |-> FALSE, value |-> url, out |-> Outcome("Ok", cause, NoFile)]

Processed(o) == [panic |-> o.result = "Panic", value |-> NoneV, out |-> o]

\* A variant that drops a transport error instead of reporting the locator.
FetchValueDropsErrors(url, resp, meta) ==
  IF resp.kind = "Err"
    THEN [panic |-> FALSE, value |-> NoneV,
          out |-> Outcome("Ok", "error", NoFile)]
  ELSE IF resp.status = 200 \/ resp.status = 404
    THEN Processed(process_response("downloader", url, resp, meta))
  ELSE Failed(url, "status")

\* A variant that takes a 404 for a failure to retry.
FetchValueRetries404(url, resp, meta) ==
  IF resp.kind = "Err" THEN Failed(url, "error")
  ELSE IF resp.status = 200
    THEN Processed(process_response("downloader", url, resp, meta))
  ELSE Failed(url, "status")

\* The value one fetch of download_urls yields: None, Some(url), or a panic.
\* downloader.rs
FetchValue(url, resp, meta) ==
  IF resp.kind = "Err" THEN Failed(url, "error")
  ELSE IF resp.status = 200 \/ resp.status = 404
    THEN Processed(process_response("downloader", url, resp, meta))
  ELSE Failed(url, "status")

\* main.rs
MainFetchValue(url, resp, meta) ==
  IF resp.kind = "Err" THEN Failed(url, "error")
  ELSE Processed(process_response("main", url, resp, meta))

Fetch(prog, url, resp, meta) ==
  IF prog = "main" THEN MainFetchValue(url, resp, meta)
  ELSE FetchValue(url, resp, meta)

\* .filter(|value| value.is_some()).map(|v| v.unwrap())
FilterSome(results) == SelectSeq(results, LAMBDA v : v # NoneV)

\* ------------------------------------------------------------------ state

VARIABLES
  program,      \* "downloader" (download of downloader.rs), "main" (main.rs)
                \* or "meta" (download_and_retry of meta.rs)
  symbol,       \* the instrument as given by the caller
  start,        \* first day of the range
  end,          \* the day after the last day of the range
  retry_count,  \* downloader.rs: the u16 argument; main.rs: the countdown;
                \* meta.rs: opt.retry_count
  meta_dict,    \* symbol -> point, the metadata map
  pc,           \* where the run is
  all,          \* the locators build_urls returned
  urls,         \* the batch download_urls is working on
  next,         \* number of fetches of the batch the stream has pulled
  fresh,        \* batch positions pulled and not yet polled: no request yet
  pending,      \* batch positions whose request is issued and whose closure
                \* has not run to its end
  work,         \* per pending position: the await its closure is at and,
                \* once it is there, the response
  queue,        \* the fetches ready to be polled, first to be polled first
  ready,        \* batch position -> value, finished and not yet yielded
  collected,    \* the values the stream has yielded, in yield order
  error_urls,   \* the list the last download_urls returned
  index,        \* downloader.rs and meta.rs: the u16 retry counter
  batches,      \* number of batches started
  files,        \* the output directory: file name -> its whole lines,
                \* whether a piece of a line follows them, and the locator
                \* whose response was written to it
  fetches,      \* per locator of all: number of requests issued
  last,         \* per locator of all: how its latest request ended
  everOk,       \* positions in all that once got a 200 or 404 response
  refetched,    \* positions in all requested again after a 200 or 404
  events,       \* number of responses drawn so far other than a plain 404
  panic,        \* the cause when the run panicked
  infos,        \* the decode_url results of the locator check
  sleeps,       \* number of 5 s delays that have elapsed
  decomp,       \* the decompressed buffer handed to the record decoder
  records,      \* the records the decoder pushed
  meta_data,    \* meta.rs: what download_and_retry returned
  attempts      \* meta.rs: the responses of the metadata requests so far

vars ==
  <<program, symbol, start, end, retry_count, meta_dict, pc, all, urls, next,
    fresh, pending, work, queue, ready, collected, error_urls, index, batches, files, fetches,
    last, everOk, refetched, events, panic, infos, sleeps, decomp, records,
    meta_data, attempts>>

inputs == <<program, symbol, start, end, meta_dict>>

\* The state of the record decoder and of the metadata fetch taken on their
\* own; a download run leaves it alone.
standalone == <<decomp, records, meta_data, attempts>>

\* The poll order of the fetches in the buffer of the stream; only a batch
\* in progress has any.
sched == <<fresh, work, queue>>

EmptyMap == [x \in {} |-> 0]

\* ----------------------------------------------------------------- inputs


RunStart == [y |-> 2003, m |-> 1, d |-> 5]

RunSymbols == {<<"E", "U">>, <<"e", "u">>}

DefaultPoint == 100000

MetaDicts == {EmptyMap, [s \in {<<"E", "U">>} |-> DefaultPoint]}

MainSymbol == <<"e", "u", "r", "u", "s", "d">>

MainStart == [y |-> 2003, m |-> 5, d |-> 5]

MainEnd == [y |-> 2003, m |-> 5, d |-> 6]

\* Nothing has run yet.
NoRun ==
  /\ all = <<>> /\ next = 0 /\ pending = {} /\ ready = EmptyMap
  /\ fresh = {} /\ work = EmptyMap /\ queue = <<>>
  /\ collected = <<>> /\ error_urls = <<>> /\ index = 0 /\ batches = 0
  /\ files = EmptyMap /\ fetches = <<>> /\ last = <<>> /\ everOk = {}
  /\ refetched = {}
  /\ events = 0 /\ panic = "" /\ infos = <<>>
  /\ sleeps = 0 /\ records = <<>>
  /\ meta_data = <<>> /\ attempts = <<>>

Idle == NoRun /\ urls = <<>> /\ decomp = <<>>

InitDownload ==
  /\ program = "downloader"
  /\ symbol \in RunSymbols
  /\ meta_dict \in MetaDicts
  /\ retry_count \in 0..MaxRetry
  /\ start = RunStart
  /\ end \in {AddDays(RunStart, n) : n \in 0..MaxDays}

InitMain ==
  /\ program = "main"
  /\ symbol = MainSymbol
  /\ meta_dict = EmptyMap
  /\ retry_count = MainRetryCount
  /\ start = MainStart
  /\ end = MainEnd

Init == pc = "init" /\ Idle /\ (InitDownload \/ InitMain)

\* --------------------------------------------------------------- download

IndexIn(seq, x) == CHOOSE k \in DOMAIN seq : seq[k] = x

Limit == IF program = "main" THEN MainConcurrencyLimit ELSE ConcurrencyLimit

\* The fetches in the buffer of the stream: pulled and not yet handed on.
InBuffer ==
  Cardinality(fresh) + Cardinality(pending) + Cardinality(DOMAIN ready)

\* A variant with no ceiling: every fetch of the batch is pulled at once.
CanSpawnUnbounded == next < Len(urls)

\* while in_progress_queue.len() < max: pull the next future of the batch
CanSpawn == next < Len(urls) /\ InBuffer < Limit

\* download: create the directory, build the locators, start the first batch
Download ==
  /\ pc = "init"
  /\ \E dirOk \in BOOLEAN :
       IF dirOk
         THEN LET u == build_urls(program, symbol, start, end)
              IN  /\ pc' = "fetching"
                  /\ all' = u
                  /\ urls' = u
                  /\ batches' = 1
                  /\ fetches' = [k \in DOMAIN u |-> 0]
                  /\ last' = [k \in DOMAIN u |-> "none"]
                  /\ panic' = panic
         ELSE /\ pc' = "failed"
              /\ panic' = "create_dir_all"
              /\ UNCHANGED <<all, urls, batches, fetches, last>>
  /\ UNCHANGED <<inputs, standalone, sched, sleeps, refetched,
                 retry_count, next, pending, ready, collected,
                 error_urls, index, files, everOk, events, infos>>

\* Buffered::poll_next, first half: pull one more future of the batch into
\* the buffer.  It is not polled yet, so no request goes out.
Spawn ==
  /\ pc = "fetching"
  /\ CanSpawn
  /\ next' = next + 1
  /\ fresh' = fresh \cup {next + 1}
  /\ queue' = Append(queue, next + 1)
  /\ UNCHANGED <<inputs, standalone, sleeps, retry_count, pc, all, urls,
                 pending, work, ready, collected, error_urls, index, batches,
                 files, fetches, last, everOk, refetched, events, panic, infos>>

Plain404(resp) == resp = NotFound

\* The fetches that have their response and are not at their end yet.
WithBody == {j \in pending : work[j].at # "get"}

\* The responses that keep a closure busy past the first poll after them.
Bodies ==
  {r \in Responses :
     r.kind = "Http" /\ r.status = 200 /\ r.len \notin {0, UnknownLen}}

\* The responses the provider may give to locator k of all.
Allowed(k) ==
  IF k > Len(all) - MaxActive /\ events < MaxEvents
    THEN IF Cardinality(WithBody) < MaxBodies THEN Responses
         ELSE Responses \ Bodies
    ELSE {NotFound}

LastKind(resp, out) ==
  IF resp.kind = "Err" THEN "Err"
  ELSE IF resp.status = 404 THEN "NotFound"
  ELSE IF resp.status # 200 THEN "Other"
  ELSE IF out.cause = "nodata" THEN "Empty"
  ELSE IF out.cause = "written" THEN "Written"
  ELSE "Lost"

\* The positions whose value the stream can hand to collect without polling a
\* fetch: FuturesOrdered keeps finished values until the next position of the
\* batch is among them.
Yieldable == DOMAIN ready \cap {Len(collected) + 1}

\* The stream will pull no further fetch and has polled all it pulled:
\* from here on the fetches are polled in the order they are woken, whatever
\* that is, and the queue is not kept.
AllStarted == next = Len(urls) /\ fresh = {}

\* The batch positions of the locators the provider has data for.
Active(i) ==
  \E k \in (Len(all) - MaxActive + 1)..Len(all) : k >= 1 /\ all[k] = urls[i]

\* What a fetch waits for comes in the order of the batch, but for the
\* locators with data: they may get it while up to MaxWaiting older fetches
\* still wait.  A fetch that is woken and queued for its poll waits no more.
Prompt(i) ==
  \A j \in pending \ Range(queue) :
    IF Active(i) THEN i <= j + MaxWaiting ELSE i <= j

\* The stream polls its fetches only when it can pull no further one and has
\* no value to hand on: the one at the front of the queue, or with nothing
\* queued and all started the one that is woken next.
Polled(i) ==
  /\ pc = "fetching"
  /\ ~CanSpawn
  /\ Yieldable = {}
  /\ IF queue # <<>> THEN i = Head(queue) ELSE AllStarted /\ Prompt(i)

\* The queue once its front is polled and set aside.
Rest == IF queue = <<>> THEN queue ELSE Tail(queue)

\* An await of fetch i: either what it waits for is there already and the
\* poll goes on (the fetch stays at the front), or the fetch is set aside
\* until it is woken.
Await(i) ==
  \E goesOn \in BOOLEAN :
    /\ goesOn => Prompt(i)
    /\ queue' = IF goesOn THEN queue ELSE Rest

\* The first poll of a fetch: isahc::get_async(url) sends the request
Start(i) ==
  /\ Polled(i)
  /\ i \in fresh
  /\ fresh' = fresh \ {i}
  /\ pending' = pending \cup {i}
  /\ work' = [j \in DOMAIN work \cup {i} |->
                IF j = i THEN [at |-> "get"] ELSE work[j]]
  /\ fetches' = [fetches EXCEPT ![IndexIn(all, urls[i])] = @ + 1]
  /\ refetched' = refetched \cup ({IndexIn(all, urls[i])} \cap everOk)
  /\ Await(i)
  /\ UNCHANGED <<inputs, standalone, sleeps, retry_count, pc, all, urls, next,
                 ready, collected, error_urls, index, batches, files, last,
                 everOk, events, panic, infos>>

\* What a fetch is woken by is there: it joins the queue at the back, behind
\* the fetches woken before it, whether they are polled yet or not.  A wake
\* comes while the stream polls or waits, not in the moment between its
\* handing a value on and its pulling the next fetch.
Notify(i) ==
  /\ pc = "fetching"
  /\ ~CanSpawn
  /\ Yieldable = {}
  /\ ~AllStarted
  /\ i \in pending
  /\ i \notin Range(queue)
  /\ Cardinality(fresh) <= MaxUnstarted
  /\ Prompt(i)
  /\ queue' = Append(queue, i)
  /\ UNCHANGED <<inputs, standalone, sleeps, retry_count, pc, all, urls, next,
                 fresh, pending, work, ready, collected, error_urls, index,
                 batches, files, fetches, last, everOk, refetched, events,
                 panic, infos>>

\* The await the closure waits at after at, on its way to an outcome
NextAwait(out, at) == Waits(out)[IndexIn(Waits(out), at) + 1]

\* The directory once file w is put into it for locator url
PutFile(dir, w, url) ==
  IF w.ok
    THEN [n \in DOMAIN dir \cup {w.name} |->
            IF n = w.name
              THEN [content |-> w.content, torn |-> w.torn, url |-> url]
              ELSE dir[n]]
    ELSE dir

\* The closure run on resp waits at the await at.
Reaches(url, resp, at) ==
  at \in Range(Waits(Fetch(program, url, resp, meta_dict).out))

\* What is settled of the response of a closure waiting at an await: at
\* copy_to the status and the length, in write_to_file the body and what the
\* file system does for the file.
Seen(resp, at) ==
  IF at = "copy"
    THEN Response(resp.kind, resp.status, resp.len, TRUE, TRUE, <<>>, FsOk)
    ELSE resp

\* What the request of fetch i, locator k of all, may turn out to be when the
\* closure is polled: any response the provider may give while it waits for
\* one, later any that agrees with what it has seen so far.
Unfolding(i, k) ==
  IF work[i].at = "get" THEN Allowed(k)
  ELSE {r \in Responses : /\ Seen(r, work[i].at) = work[i].resp
                          /\ Reaches(urls[i], r, work[i].at)}

\* The same, told apart only as far as the poll at hand can: a response that
\* takes the closure to its next await is known by what the closure has seen
\* of it there.
Folded(i, k) ==
  {LET out == Fetch(program, urls[i], r, meta_dict).out
   IN  IF work[i].at # LastAwait(out)
         THEN Seen(r, NextAwait(out, work[i].at))
         ELSE r : r \in Unfolding(i, k)}

\* A variant that hands every finished value on at once, as buffer_unordered.
YieldsAtOnceUnordered(i) == TRUE

\* buffered hands a finished value on at once when it is the next of the
\* batch and keeps it otherwise; buffer_unordered always hands it on.
YieldsAtOnce(i) == program = "main" \/ i = Len(collected) + 1

\* The blocking operation on its file that fetch i waits for is done.  The
\* runtime has it on a thread of its own: it is done whatever the stream
\* does, before the closure is polled again, and also when the run has
\* panicked in the meantime.
Settle(i) ==
  /\ pc \in {"fetching", "panicked"}
  /\ work[i].at \in Range(WriteAwaits(program))
  /\ files' = PutFile(files,
                      FileAfter(Fetch(program, urls[i], work[i].resp,
                                      meta_dict).out.file, work[i].at),
                      urls[i])
  /\ files' # files
  /\ UNCHANGED <<inputs, standalone, sched, sleeps, refetched, retry_count,
                 pc, all, urls, next, pending, ready, collected, error_urls,
                 index, batches, fetches, last, everOk, events, panic, infos>>

\* A poll of a fetch whose request is out takes its closure past the await
\* it waits at: past get_async with the response, past response.copy_to,
\* past File::create and so on.  The closure then runs on to the next await
\* it has to wait at, or to its end when there is none: the value it returns
\* goes to the stream, or its panic ends the run.
Advance(i) ==
  /\ Polled(i)
  /\ i \in pending
  /\ LET k == IndexIn(all, urls[i])
         at == work[i].at
     IN  \E resp \in Folded(i, k) :
           LET f == Fetch(program, urls[i], resp, meta_dict)
           IN  /\ events' = IF at = "get" /\ ~Plain404(resp)
                              THEN events + 1 ELSE events
               /\ everOk' = IF resp.kind = "Http" /\ resp.status \in {200, 404}
                              THEN everOk \cup {k} ELSE everOk
               /\ files' = IF at \in Range(WriteAwaits(program))
                             THEN PutFile(files, FileAfter(f.out.file, at),
                                          urls[i])
                             ELSE files
               /\ IF at # LastAwait(f.out)
                    THEN /\ work' = [work EXCEPT ![i] =
                                       [at |-> NextAwait(f.out, at),
                                        resp |-> resp]]
                         /\ Await(i)
                         /\ UNCHANGED <<pc, panic, pending, ready, collected,
                                        last>>
                  ELSE IF f.panic
                    THEN /\ pc' = "panicked"
                         /\ panic' = f.out.cause
                         /\ last' = [last EXCEPT ![k] = LastKind(resp, f.out)]
                         /\ UNCHANGED <<pending, work, queue, ready, collected>>
                  ELSE /\ pending' = pending \ {i}
                       /\ work' = [j \in DOMAIN work \ {i} |-> work[j]]
                       /\ queue' = Rest
                       /\ last' = [last EXCEPT ![k] = LastKind(resp, f.out)]
                       /\ IF YieldsAtOnce(i)
                            THEN /\ collected' = Append(collected, f.value)
                                 /\ ready' = ready
                            ELSE /\ ready' = [j \in DOMAIN ready \cup {i} |->
                                                IF j = i THEN f.value
                                                ELSE ready[j]]
                                 /\ collected' = collected
                       /\ UNCHANGED <<pc, panic>>
  /\ UNCHANGED <<inputs, standalone, sleeps, refetched, retry_count, all, urls,
                 next, fresh, error_urls, index, batches, fetches, infos>>

\* FuturesOrdered::poll_next: the next value of the batch is already there
Yield ==
  /\ pc = "fetching"
  /\ ~CanSpawn
  /\ \E i \in Yieldable :
       /\ collected' = Append(collected, ready[i])
       /\ ready' = [j \in DOMAIN ready \ {i} |-> ready[j]]
  /\ UNCHANGED <<inputs, standalone, sched, sleeps, refetched,
                 retry_count, pc, all, urls, next, pending,
                 error_urls, index, batches, files, fetches, last, everOk,
                 events, panic, infos>>

\* A variant that ends the batch once every fetch is started.
StreamDoneEarly == next = Len(urls) /\ DOMAIN ready = {}

\* collect is done: every fetch of the batch is pulled, finished and yielded
StreamDone ==
  next = Len(urls) /\ fresh = {} /\ pending = {} /\ DOMAIN ready = {}

\* index += 1 on a u16: a panic with overflow checks, a wrap without
IndexOverflows == batches > 1 /\ index = U16Modulus - 1

NextIndex == IF batches = 1 THEN 1 ELSE (index + 1) % U16Modulus

\* download_urls returns the failed locators; download takes them into
\* error_urls and, after a retry batch, steps its counter
DownloadUrlsReturn ==
  /\ pc = "fetching"
  /\ StreamDone
  /\ error_urls' = FilterSome(collected)
  /\ \E checks \in BOOLEAN :
       IF program = "downloader" /\ IndexOverflows /\ checks
         THEN /\ pc' = "panicked"
              /\ panic' = "overflow"
              /\ UNCHANGED <<index, retry_count>>
         ELSE /\ pc' = "loop"
              /\ panic' = panic
              /\ index' = IF program = "downloader" THEN NextIndex ELSE index
              /\ retry_count' = IF program = "main" /\ batches > 1
                                  THEN retry_count - 1 ELSE retry_count
  /\ UNCHANGED <<inputs, standalone, sched, sleeps, refetched,
                 all, urls, next, pending, ready, collected, batches,
                 files, fetches, last, everOk, events, infos>>

\* while error_urls.len() > 0 && index <= retry_count   (downloader.rs)
\* while error_urls.len() > 0 && retry_count > 0        (main.rs)
LoopCondition ==
  /\ Len(error_urls) > 0
  /\ IF program = "main" THEN retry_count > 0 ELSE index <= retry_count

\* The loop is entered: tokio::time::sleep(5 s)
Retry ==
  /\ pc = "loop"
  /\ LoopCondition
  /\ pc' = "sleeping"
  /\ UNCHANGED <<inputs, standalone, sched, sleeps, refetched,
                 retry_count, all, urls, next, pending, ready,
                 collected, error_urls, index, batches, files, fetches, last,
                 everOk, events, panic, infos>>

\* The delay is over: download_urls(meta_dict, error_urls, ..) starts
Wake ==
  /\ pc = "sleeping"
  /\ pc' = "fetching"
  /\ urls' = error_urls
  /\ next' = 0
  /\ collected' = <<>>
  /\ batches' = batches + 1
  /\ sleeps' = sleeps + 1
  /\ UNCHANGED <<inputs, standalone, sched, refetched,
                 retry_count, all, pending, ready, error_urls, index,
                 files, fetches, last, everOk, events, panic, infos>>

\* The loop is left: Ok(error_urls)
Finish ==
  /\ pc = "loop"
  /\ ~LoopCondition
  /\ pc' = "done"
  /\ UNCHANGED <<inputs, standalone, sched, sleeps, refetched,
                 retry_count, all, urls, next, pending, ready,
                 collected, error_urls, index, batches, files, fetches, last,
                 everOk, events, panic, infos>>

Next ==
  \/ Download
  \/ Spawn
  \/ \E i \in fresh : Start(i)
  \/ \E i \in pending : Notify(i)
  \/ \E i \in pending : Settle(i)
  \/ \E i \in pending : Advance(i)
  \/ Yield
  \/ DownloadUrlsReturn
  \/ Retry
  \/ Wake
  \/ Finish

Spec == Init /\ [][Next]_vars

\* ------------------------------------------------------- a long-running run

\* A run with a retry_count at the top of the u16 range takes tens of
\* thousands of batches to bring index near 65535.  This specification adds
\* to Init the states such a run is in when download_urls has just returned
\* from batch number b, b = index, after the same locators of a one-day range
\* failed with a transport error in every batch so far and all the others got
\* a 404 in the first batch.

LateBatches == {U16Modulus - 2, U16Modulus - 1}

LateRetryCounts == {U16Modulus - 2, U16Modulus - 1}

LateSymbol == <<"E", "U">>

LateUrls == build_urls("downloader", LateSymbol, RunStart, NextDay(RunStart))

\* The positions in LateUrls that keep failing: some of the last MaxActive.
LateFailing ==
  {f \in SUBSET ((Len(LateUrls) - MaxActive + 1)..Len(LateUrls)) : f # {}}

InitLate ==
  /\ pc = "loop"
  /\ program = "downloader"
  /\ symbol = LateSymbol
  /\ meta_dict = [s \in {LateSymbol} |-> DefaultPoint]
  /\ start = RunStart
  /\ end = NextDay(RunStart)
  /\ retry_count \in LateRetryCounts
  /\ all = LateUrls
  /\ \E f \in LateFailing : \E b \in LateBatches :
       /\ error_urls = SelectSeq(LateUrls, LAMBDA u : IndexIn(LateUrls, u) \in f)
       /\ urls = error_urls
       /\ collected = error_urls
       /\ batches = b
       /\ index = b
       /\ sleeps = b - 1
       /\ fetches = [k \in DOMAIN LateUrls |-> IF k \in f THEN b ELSE 1]
       /\ last = [k \in DOMAIN LateUrls |-> IF k \in f THEN "Err" ELSE "NotFound"]
       /\ everOk = DOMAIN LateUrls \ f
  /\ next = Len(urls) /\ pending = {} /\ ready = EmptyMap
  /\ fresh = {} /\ work = EmptyMap /\ queue = <<>>
  /\ files = EmptyMap /\ refetched = {} /\ events = 0 /\ panic = ""
  /\ infos = <<>> /\ decomp = <<>> /\ records = <<>>
  /\ meta_data = <<>> /\ attempts = <<>>

InitOrLate == Init \/ InitLate

SpecLate == InitOrLate /\ [][Next]_vars

\* ------------------------------------------------- the locator functions

\* A second specification: build_urls and decode_url on their own, over
\* instruments in any letter case and over ranges that cross the end of a
\* month, of a leap February and of a year.

SymAlphabet == {"E", "u", "5", "ß"}

Symbols == UNION {[1..n -> SymAlphabet] : n \in 1..MaxSymLen}

BaseDates ==
  {[y |-> 2003, m |-> 1, d |-> 5], [y |-> 2003, m |-> 2, d |-> 28],
   [y |-> 2004, m |-> 2, d |-> 28], [y |-> 2004, m |-> 2, d |-> 29],
   [y |-> 2003, m |-> 12, d |-> 31], [y |-> 999, m |-> 12, d |-> 31],
   [y |-> 9999, m |-> 12, d |-> 31]}

InitUrl ==
  /\ pc = "u_init"
  /\ Idle
  /\ program \in {"downloader", "main"}
  /\ symbol \in Symbols
  /\ meta_dict = EmptyMap
  /\ retry_count = 0
  /\ \E b \in BaseDates : \E i \in 0..MaxSpan, j \in 0..MaxSpan :
       start = AddDays(b, i) /\ end = AddDays(b, j)

\* let urls = build_urls(&symbol, start, end);
BuildUrls ==
  /\ pc = "u_init"
  /\ pc' = "u_built"
  /\ urls' = build_urls(program, symbol, start, end)
  /\ UNCHANGED <<inputs, standalone, sched, sleeps, refetched,
                 retry_count, all, next, pending, ready, collected,
                 error_urls, index, batches, files, fetches, last, everOk,
                 events, panic, infos>>

\* let info = decode_url(url); for every locator built
DecodeUrls ==
  /\ pc = "u_built"
  /\ pc' = "u_decoded"
  /\ infos' = [i \in DOMAIN urls |-> decode_url(urls[i])]
  /\ UNCHANGED <<inputs, standalone, sched, sleeps, refetched,
                 retry_count, all, urls, next, pending, ready,
                 collected, error_urls, index, batches, files, fetches, last,
                 everOk, events, panic>>

NextUrl == BuildUrls \/ DecodeUrls

SpecUrl == InitUrl /\ [][NextUrl]_vars

\* -------------------------------------------------- the record decoder

\* A third specification: the decoding loop of process_response and
\* write_to_file on their own, over buffers of whole records, with and without
\* a truncated tail, for one locator of a day or one that stands for no hour
\* of any day.

\* An all-zero record: the tick at the hour start with zero prices.
ZeroRecord == [i \in 1..RecordSize |-> 0]

\* Offset -1 ms, ask -2, bid 2147483647, volumes -1.0 and 0.0
NegativeRecord ==
  <<255, 255, 255, 255,  255, 255, 255, 254,  127, 255, 255, 255,
    191, 128, 0, 0,  0, 0, 0, 0>>

\* Offset 3599999 ms, ask 16777217, bid 16777216, volumes 0.0
LargeRecord ==
  <<0, 54, 238, 127,  1, 0, 0, 1,  1, 0, 0, 0,  0, 0, 0, 0,  0, 0, 0, 0>>

SampleRecords == {ZeroRecord, OneRecord, NegativeRecord, LargeRecord}

RECURSIVE Flatten(_)
Flatten(rs) == IF rs = <<>> THEN <<>> ELSE Head(rs) \o Flatten(Tail(rs))

Buffers ==
  {Flatten(rs) \o t :
     rs \in UNION {[1..n -> SampleRecords] : n \in 0..MaxRecords},
     t \in {<<>>, <<0, 0, 0>>}}

DecodeStarts == {RunStart, [y |-> 2003, m |-> 12, d |-> 31]}

DecodeHours == {0, 23}

\* Locators build_urls never gives: the 30th of February, and hour 24.
OddUrls ==
  {UrlOf(<<"E", "U">>, 2003, 1, 30, 0), UrlOf(<<"E", "U">>, 2003, 0, 5, 24)}

InitDecode ==
  /\ pc = "d_init"
  /\ NoRun
  /\ \/ program = "downloader" /\ symbol \in RunSymbols /\ meta_dict \in MetaDicts
     \/ program = "main" /\ symbol = MainSymbol /\ meta_dict = EmptyMap
  /\ retry_count = 0
  /\ start \in DecodeStarts
  /\ end = NextDay(start)
  /\ urls \in {<<DayUrls(program, symbol, start)[h + 1]>> : h \in DecodeHours}
                \cup {<<u>> : u \in OddUrls}
  /\ decomp \in Buffers

\* let info = decode_url(url); let meta_info = &meta_dict[&info.symbol];
\* while pos < decomp_len { .. records.push(..); pos += 20 }
Decode ==
  /\ pc = "d_init"
  /\ LET info == decode_url(urls[1])
     IN  IF ~info.matched
           THEN pc' = "d_panicked" /\ panic' = "regex"
                /\ UNCHANGED <<infos, records>>
         ELSE IF ~HasPoint(program, meta_dict, info)
           THEN pc' = "d_panicked" /\ panic' = "meta"
                /\ UNCHANGED <<infos, records>>
         ELSE LET dec == DecodeFrom(decomp, 0, info,
                                    PointOf(program, meta_dict, info), <<>>)
              IN  IF dec.panic
                    THEN pc' = "d_panicked" /\ panic' = dec.cause
                         /\ UNCHANGED <<infos, records>>
                    ELSE pc' = "d_decoded" /\ panic' = panic
                         /\ infos' = <<info>> /\ records' = dec.records
  /\ UNCHANGED <<inputs, sched, sleeps, refetched, retry_count, all, urls, next,
                 pending, ready, collected, error_urls, index, batches, files,
                 fetches, last, everOk, events, decomp, meta_data, attempts>>

\* write_to_file(&info, &records, path).await? is polled.  The first poll
\* asks for the file and waits at File::create; what the file system does
\* for the file is drawn there.  A later poll takes the call past the await
\* it waits at, the blocking operation it waited for being done, and on to
\* the next await it has to wait at, or to its end.
WriteFile ==
  /\ pc \in {"d_decoded", "d_writing"}
  /\ IF pc = "d_decoded"
       THEN /\ pc' = "d_writing"
            /\ \E fs \in FsOutcomes :
                 work' = [x \in {1} |-> [at |-> "create", fs |-> fs]]
            /\ files' = files
       ELSE LET w == write_to_file(program, infos[1], records, work[1].fs)
                at == work[1].at
            IN  /\ files' = PutFile(files, FileAfter(w, at), urls[1])
                /\ IF at = w.waits[Len(w.waits)]
                     THEN /\ pc' = IF w.done THEN "d_written" ELSE "d_failed"
                          /\ work' = EmptyMap
                     ELSE /\ pc' = "d_writing"
                          /\ work' = [work EXCEPT ![1].at =
                                        w.waits[IndexIn(w.waits, at) + 1]]
  /\ UNCHANGED <<inputs, standalone, fresh, queue, sleeps, refetched,
                 retry_count, all, urls, next, pending, ready, collected,
                 error_urls, index, batches, fetches, last, everOk, events,
                 panic, infos>>

\* The blocking operation on the file that the call waits for is done: the
\* runtime has it on a thread of its own, and the file is as the operation
\* leaves it before the call is polled again.
SettleFile ==
  /\ pc = "d_writing"
  /\ files' = PutFile(files,
                      FileAfter(write_to_file(program, infos[1], records,
                                              work[1].fs), work[1].at),
                      urls[1])
  /\ files' # files
  /\ UNCHANGED <<inputs, standalone, sched, sleeps, refetched, retry_count,
                 pc, all, urls, next, pending, ready, collected, error_urls,
                 index, batches, fetches, last, everOk, events, panic, infos>>

NextDecode == Decode \/ WriteFile \/ SettleFile

SpecDecode == InitDecode /\ [][NextDecode]_vars

\* ------------------------------------------------- the metadata fetch

\* A fourth specification: download_and_retry of meta.rs with fetch_meta_data.
\* opt.verbose only switches printing and is left out.

MetaResponse(kind, status, textOk, body) ==
  [kind |-> kind, status |-> status, textOk |-> textOk, body |-> body]

\* jsonp({})
MetaBody == <<"j", "s", "o", "n", "p", "(", "{", "}", ")">>

\* jsonp(): nothing between the envelope
EmptyMetaBody == <<"j", "s", "o", "n", "p", "(", ")">>

\* A body shorter than the envelope
ShortMetaBody == <<"{", "}">>

\* Bodies with a letter of two bytes at the start, across byte 6, and at the
\* end
OddMetaBodies ==
  {<<"é", "j", "s", "o", "n", "p", "(", "{", "}", ")">>,
   <<"j", "s", "o", "n", "p", "é", "{", "}", ")">>,
   <<"j", "s", "o", "n", "p", "(", "{", "}", "é">>}

MetaResponses ==
  {MetaResponse("Err", 0, TRUE, <<>>),
   MetaResponse("Http", 404, TRUE, <<>>),
   MetaResponse("Http", 500, TRUE, MetaBody),
   MetaResponse("Http", 200, FALSE, <<>>),
   MetaResponse("Http", 200, TRUE, MetaBody),
   MetaResponse("Http", 200, TRUE, EmptyMetaBody),
   MetaResponse("Http", 200, TRUE, ShortMetaBody),
   MetaResponse("Http", 200, TRUE, <<>>)}
  \cup {MetaResponse("Http", 200, TRUE, b) : b \in OddMetaBodies}

None == [some |-> FALSE]

Some(v) == [some |-> TRUE, value |-> v]

\* The bytes a character takes in a String: two for the letters beyond
\* ASCII the model has, one for the others.
Utf8Len(c) ==
  IF c \in Range(OtherLowerChars) \cup {"É", "Ñ"} \cup Range(OtherDigitChars)
    THEN 2 ELSE 1

\* s.len(): the length of a String in bytes
RECURSIVE ByteLen(_)
ByteLen(s) == IF s = <<>> THEN 0 ELSE Utf8Len(Head(s)) + ByteLen(Tail(s))

\* The prefixes of s, in characters, that end at byte b: one when b is a
\* character boundary of s, none when it is inside a character or beyond s.
CharsUpTo(s, b) == {k \in 0..Len(s) : ByteLen(SubSeq(s, 1, k)) = b}

\* fetch_meta_data: Some(body[6..body.len() - 1]) for a 200 whose text can be
\* read, a panic when the body has fewer than 7 bytes or when byte 6 or the
\* last byte is not the start of a character, None otherwise
fetch_meta_data(resp) ==
  IF resp.kind = "Http" /\ resp.status = 200 /\ resp.textOk
    THEN LET from == CharsUpTo(resp.body, 6)
             to == CharsUpTo(resp.body, ByteLen(resp.body) - 1)
         IN  IF ByteLen(resp.body) < 7 \/ from = {} \/ to = {}
               THEN [panic |-> TRUE, data |-> None]
               ELSE [panic |-> FALSE,
                     data |-> Some(SubSeq(resp.body,
                                          (CHOOSE k \in from : TRUE) + 1,
                                          CHOOSE k \in to : TRUE))]
    ELSE [panic |-> FALSE, data |-> None]

InitMeta ==
  /\ pc = "m_loop"
  /\ Idle
  /\ program = "meta"
  /\ symbol = <<>>
  /\ meta_dict = EmptyMap
  /\ start = RunStart
  /\ end = RunStart
  /\ retry_count \in 0..MaxMetaRetry

\* A variant that tests index <= retry_count, as the loop of download does.
MetaLoopConditionInclusive == index <= retry_count

\* while index < opt.retry_count
MetaLoopCondition == index < retry_count

\* One turn of the loop: fetch_meta_data(), return it if it is Some, else
\* index += 1
MetaAttempt ==
  /\ pc = "m_loop"
  /\ MetaLoopCondition
  /\ \E resp \in MetaResponses :
       /\ attempts' = Append(attempts, resp)
       /\ IF fetch_meta_data(resp).panic
            THEN /\ pc' = "m_panicked"
                 /\ panic' = "slice"
                 /\ UNCHANGED <<index, meta_data>>
          ELSE IF fetch_meta_data(resp).data.some
            THEN /\ pc' = "m_done"
                 /\ meta_data' = fetch_meta_data(resp).data
                 /\ UNCHANGED <<index, panic>>
          ELSE /\ index' = (index + 1) % U16Modulus
               /\ UNCHANGED <<pc, panic, meta_data>>
  /\ UNCHANGED <<inputs, sched, sleeps, refetched, retry_count, all, urls, next,
                 pending, ready, collected, error_urls, batches, files,
                 fetches, last, everOk, events, infos, decomp, records>>

\* The loop is left: None
MetaGiveUp ==
  /\ pc = "m_loop"
  /\ ~MetaLoopCondition
  /\ pc' = "m_done"
  /\ meta_data' = None
  /\ UNCHANGED <<inputs, sched, sleeps, refetched, retry_count, all, urls, next,
                 pending, ready, collected, error_urls, index, batches, files,
                 fetches, last, everOk, events, panic, infos, decomp, records,
                 attempts>>

NextMeta == MetaAttempt \/ MetaGiveUp

SpecMeta == InitMeta /\ [][NextMeta]_vars

\* ------------------------------------------------------------------ claims

\* Reading a locator as text: the fields between its four "/" separators.
Slashes(url) == {i \in DOMAIN url : url[i] = "/"}

NthSlash(url, n) ==
  CHOOSE i \in Slashes(url) : Cardinality({x \in Slashes(url) : x < i}) = n - 1

SymbolField(url) == SubSeq(url, 2, NthSlash(url, 1) - 1)

MiddleField(url, n) == SubSeq(url, NthSlash(url, n) + 1, NthSlash(url, n + 1) - 1)

HourField(url) == SubSeq(url, NthSlash(url, 4) + 1, Len(url) - 1)

UrlDate(url) ==
  [y |-> ParseDigits(MiddleField(url, 1)),
   m |-> ParseDigits(MiddleField(url, 2)) + 1,
   d |-> ParseDigits(MiddleField(url, 3))]

TwoDigits(n) == <<DigitChars[(n \div 10) + 1], DigitChars[(n % 10) + 1]>>

\* The number of a day in the proleptic Gregorian calendar, by the closed
\* formula rather than by counting.
DaysBeforeMonth == <<0, 31, 59, 90, 120, 151, 181, 212, 243, 273, 304, 334>>

DayNumber(dt) ==
  365 * (dt.y - 1) + ((dt.y - 1) \div 4) - ((dt.y - 1) \div 100)
    + ((dt.y - 1) \div 400) + DaysBeforeMonth[dt.m]
    + (IF dt.m > 2 /\ IsLeapYear(dt.y) THEN 1 ELSE 0) + dt.d

DaysInRange == 
  IF DayNumber(end) > DayNumber(start) THEN DayNumber(end) - DayNumber(start) ELSE 0

\* The day and the hour the i-th locator of a range stands for.
ExpectedDate(i) == AddDays(start, (i - 1) \div 24)

ExpectedHour(i) == (i - 1) % 24

\* C8: build_urls returns exactly 24 locators per day of [start, end), the
\* i-th one for day start + (i-1) div 24 and hour (i-1) mod 24, so days and
\* hours ascend strictly and no locator comes twice; an empty range (end <=
\* start) gives the empty sequence.
C8_BuildUrlsCountAndOrder ==
  pc = "u_built" =>
    /\ Len(urls) = 24 * DaysInRange
    /\ \A i \in DOMAIN urls :
         /\ DayNumber(UrlDate(urls[i])) = DayNumber(start) + ((i - 1) \div 24)
         /\ ParseDigits(HourField(urls[i])) = (i - 1) % 24
    /\ \A i \in DOMAIN urls : \A j \in DOMAIN urls : i < j => urls[i] # urls[j]
    /\ (~DateLess(start, end) => urls = <<>>)

\* A range of two days that crosses the end of a month has been built.
C8_Witness ==
  /\ pc = "u_built"
  /\ Len(urls) = 48
  /\ start.m # end.m

\* C9: decode_url applied to every locator the builder of downloader.rs
\* produced returns the upper-cased instrument, the year, the calendar month,
\* the day and the hour of the locator, and never fails.
C9_RoundTrip ==
  (pc = "u_decoded" /\ program = "downloader") =>
    \A i \in DOMAIN urls :
      infos[i] = [matched |-> TRUE,
                  symbol  |-> to_uppercase(symbol),
                  year    |-> ExpectedDate(i).y,
                  month   |-> ExpectedDate(i).m,
                  day     |-> ExpectedDate(i).d,
                  hour    |-> ExpectedHour(i)]

\* C10: every locator built carries the instrument in upper case, the month
\* as the two-digit zero-based index, and the day and the hour as two digits.
C10_UrlFormat ==
  pc = "u_built" =>
    \A i \in DOMAIN urls :
      /\ SymbolField(urls[i]) = to_uppercase(symbol)
      /\ MiddleField(urls[i], 2) = TwoDigits(ExpectedDate(i).m - 1)
      /\ MiddleField(urls[i], 3) = TwoDigits(ExpectedDate(i).d)
      /\ HourField(urls[i]) = TwoDigits(ExpectedHour(i))

\* The locators of all that are terminal NoData: a 404, or a 200 with an
\* empty body.
NoData == {k \in DOMAIN last : last[k] \in {"NotFound", "Empty"}}

\* The locators of all whose latest fetch failed: a transport error (a
\* timeout is one) or a status other than 200 and 404.
FailedNow == {k \in DOMAIN last : last[k] \in {"Err", "Other"}}

\* download_urls has returned and error_urls is what it returned.
Returned == pc \in {"loop", "sleeping", "done"}

\* The names of the files in the output directory written for locator k.
FilesOf(k) == {f \in DOMAIN files : files[f].url = all[k]}

\* C1: the list download returns holds exactly the locators every attempt
\* for which ended in a transport error or a status other than 200 and 404;
\* no locator that ever got a 200 or a 404 is in it.
C1_FailureListExact ==
  (program = "downloader" /\ pc = "done") =>
    /\ Range(error_urls) =
         {all[k] : k \in {j \in DOMAIN all : fetches[j] >= 1 /\ j \notin everOk}}
    /\ \A k \in DOMAIN all :
         last[k] \in {"NotFound", "Empty", "Written", "Lost"} =>
           all[k] \notin Range(error_urls)

\* download has returned a residual failure next to a written file and 404s.
C1_Witness ==
  /\ program = "downloader"
  /\ pc = "done"
  /\ error_urls # <<>>
  /\ \E k \in DOMAIN last : last[k] = "Written"
  /\ \E k \in DOMAIN last : last[k] = "NotFound"

\* C2: a locator answered with a 404, or with a 200 and an empty body, is
\* not in the values of the batch that form the retry list, is not in the
\* list download_urls returns, has no output file, and is never fetched again.
C2_NoDataTerminal ==
  program = "downloader" =>
    \A k \in NoData :
      /\ all[k] \notin Range(collected)
      /\ \A i \in DOMAIN ready : ready[i] # all[k]
      /\ Returned => all[k] \notin Range(error_urls)
      /\ FilesOf(k) = {}
      /\ k \notin refetched

\* After a retry batch the run is over; one locator got an empty 200 body in
\* the first batch and was left alone by the retry, another failed first and
\* got its 404 in the retry.
C2_Witness ==
  /\ program = "downloader"
  /\ pc = "done"
  /\ batches = 2
  /\ \E k \in DOMAIN last : last[k] = "Empty" /\ fetches[k] = 1
  /\ \E k \in DOMAIN last : last[k] = "NotFound" /\ fetches[k] = 2

\* C3: when download_urls returns, every locator whose fetch of that attempt
\* ended in a transport error or in a status other than 200 and 404 is in
\* the returned list.
C3_FailuresRetried ==
  pc = "loop" => \A k \in FailedNow : all[k] \in Range(error_urls)

\* The same, for download_urls of downloader.rs alone.
C3_DownloaderFailuresRetried ==
  (program = "downloader" /\ pc = "loop") =>
    \A k \in FailedNow : all[k] \in Range(error_urls)

\* C4: whatever the responses, download never aborts, runs at most
\* 1 + retry_count batches, and returns Ok with the remaining failures.
C4_AlwaysReturnsOk ==
  program = "downloader" =>
    /\ pc # "panicked"
    /\ batches <= 1 + retry_count
    /\ pc = "done" => Range(error_urls) = {all[k] : k \in FailedNow}

\* C5: a payload that fails decompression, or whose decompressed length is
\* not a multiple of 20, does not abort the batch.
C5_DecodeFailureIsolated ==
  program = "downloader" => ~(pc = "panicked" /\ panic \in {"lzma", "eof"})

\* C6: at every point of a batch of download_urls of downloader.rs at most
\* 24 fetches are pulled into the stream and not yet handed to collect; in
\* particular at most 24 requests are in flight.
C6_InFlightBounded ==
  program = "downloader" =>
    /\ Cardinality(pending) <= 24
    /\ Cardinality(fresh) + Cardinality(pending) + Cardinality(DOMAIN ready)
         <= 24

\* 24 requests are in flight and the batch has more locators to fetch.
C6_Witness ==
  /\ program = "downloader"
  /\ Cardinality(pending) = 24
  /\ next < Len(urls)

\* C7: with no entry for the symbol in the metadata map, download issues no
\* request.
C7_NoFetchWithoutMeta ==
  (program = "downloader" /\ symbol \notin DOMAIN meta_dict) =>
    \A k \in DOMAIN fetches : fetches[k] = 0

\* The k-th 4-byte field (k = 0..4) of the i-th record of a buffer.
FieldBytes(buf, i, k) ==
  SubSeq(buf, 20 * (i - 1) + 4 * k + 1, 20 * (i - 1) + 4 * k + 4)

\* The signed 32-bit integer four big-endian bytes stand for, by the
\* complement rule.
Magnitude(b) == ((b[1] * 256 + b[2]) * 256 + b[3]) * 256 + b[4]

SignedValue(b) ==
  IF b[1] < 128 THEN Magnitude(b)
  ELSE (0 - Magnitude([j \in 1..4 |-> 255 - b[j]])) - 1

FieldInt(buf, i, k) == SignedValue(FieldBytes(buf, i, k))

\* The float nearest to n / d, the quotient of a signed 32-bit integer and a
\* whole price scale, nothing being rounded before the division.
PriceOf(n, d) ==
  LET least == n = (0 - 2147483647) - 1
      a == IF least THEN 1073741824 ELSE IF n < 0 THEN 0 - n ELSE n
      e == IF least THEN 1 ELSE 0
      u == Ulp(a \div d)
      m == (a \div d) \div u
      p == IF u = 1 THEN NearestQuot(a \div d, a % d, d, e)
           ELSE NearestQuot(m, ((a \div d) % u) * d + (a % d), u * d,
                            e + (CHOOSE k \in 0..8 : 2^k = u))
  IN  IF n = 0 THEN [sig |-> 0, exp |-> 0]
      ELSE IF n < 0 THEN [sig |-> 0 - p.sig, exp |-> p.exp]
      ELSE p

\* The price scale of the symbol of the run.
ScaleOfRun ==
  IF program = "main" THEN 100000 ELSE meta_dict[to_uppercase(symbol)]

\* C11: a buffer of N whole 20-byte records decodes to N records in input
\* order, the i-th stamped with the hour start of the locator plus the i-th
\* offset, its ask and bid being the i-th integers over the price scale; an
\* empty buffer gives no record.
C11_DecodeRecords ==
  (pc = "d_decoded" /\ Len(decomp) % 20 = 0) =>
    /\ Len(records) = Len(decomp) \div 20
    /\ \A i \in DOMAIN records :
         /\ records[i].dt = [y |-> UrlDate(urls[1]).y,
                             m |-> UrlDate(urls[1]).m,
                             d |-> UrlDate(urls[1]).d,
                             h |-> ParseDigits(HourField(urls[1])),
                             ms |-> FieldInt(decomp, i, 0)]
         /\ records[i].ask = PriceOf(FieldInt(decomp, i, 1), ScaleOfRun)
         /\ records[i].bid = PriceOf(FieldInt(decomp, i, 2), ScaleOfRun)

HeaderLine == "datetime,ask,bid,ask_vol,bid_vol"

\* C12: a file write_to_file has written starts with the header line
\* datetime,ask,bid,ask_vol,bid_vol and goes on with one row per record, in
\* record order, the fields in that order.
C12_FileFormat ==
  pc = "d_written" =>
    \A f \in DOMAIN files :
      /\ Len(files[f].content) = 1 + Len(records)
      /\ files[f].content[1] = HeaderLine
      /\ \A i \in DOMAIN records :
           files[f].content[i + 1] =
             <<records[i].dt, records[i].ask, records[i].bid,
               records[i].ask_vol, records[i].bid_vol>>

\* The characters of a file name in the order of their codes; the suffix
\* "h_ticks.bi5" compares by its first character.
CodeOrder == DigitChars \o UpperChars \o <<"_">> \o LowerChars

CodeOf(c) ==
  CHOOSE i \in DOMAIN CodeOrder :
    CodeOrder[i] = (IF c = TicksSuffix THEN "h" ELSE c)

\* a < b as plain strings
RECURSIVE LessFrom(_, _, _)
LessFrom(a, b, k) ==
  IF k > Len(a) THEN k <= Len(b)
  ELSE IF k > Len(b) THEN FALSE
  ELSE IF a[k] = b[k] THEN LessFrom(a, b, k + 1)
  ELSE CodeOf(a[k]) < CodeOf(b[k])

StrLess(a, b) == LessFrom(a, b, 1)

\* a is earlier than b by (year, month, day, hour)
ChronoLess(a, b) ==
  \/ a.year < b.year
  \/ a.year = b.year /\ a.month < b.month
  \/ a.year = b.year /\ a.month = b.month /\ a.day < b.day
  \/ a.year = b.year /\ a.month = b.month /\ a.day = b.day /\ a.hour < b.hour

\* The locators of the range whose key decode_url recovers.
Decoded == {i \in DOMAIN infos : infos[i].matched}

\* The output file name of each of them.
NameOf == [i \in Decoded |-> FileName(infos[i])]

\* C13: two different locators of one run never get the same output file
\* name (the directory is the same for the whole run), so two fetches of a
\* batch never write the same file.
C13_DistinctPaths ==
  pc = "u_decoded" =>
    LET name == NameOf
    IN  \A i \in Decoded : \A j \in Decoded :
          urls[i] # urls[j] => name[i] # name[j]

\* Two days across the end of a year have been built and decoded.
C13_Witness ==
  /\ pc = "u_decoded"
  /\ Len(urls) = 48
  /\ Decoded = DOMAIN urls
  /\ infos[1].year # infos[48].year

\* C14: for two locators of one range, the file name of the one is below the
\* file name of the other as a plain string exactly when it is the earlier
\* one by year, month, day and hour.
C14_NamesSortChronologically ==
  pc = "u_decoded" =>
    LET name == NameOf
    IN  \A i \in Decoded : \A j \in Decoded :
          StrLess(name[i], name[j]) <=> ChronoLess(infos[i], infos[j])

\* Two days across the end of a month have been built and decoded: the hours
\* go from 09 to 10 and the month number goes up.
C14_Witness ==
  /\ pc = "u_decoded"
  /\ Len(urls) = 48
  /\ Decoded = DOMAIN urls
  /\ infos[1].month < infos[48].month

\* C15: a retry batch follows only a non-empty failure list with attempts
\* left; it works on exactly that list, which is part of the batch before; a
\* locator that once got a 200 or a 404 is not fetched again; no locator is
\* fetched more than 1 + retry_count times; index goes up by one per batch.
C15_RetryBatches ==
  program = "downloader" =>
    /\ pc = "sleeping" => (error_urls # <<>> /\ batches <= retry_count)
    /\ (pc = "fetching" /\ batches > 1) => urls = error_urls
    /\ pc = "loop" => Range(error_urls) \subseteq Range(urls)
    /\ refetched = {}
    /\ \A k \in DOMAIN fetches : fetches[k] <= 1 + retry_count
    /\ Returned => index = batches

\* C16: outside a batch no fetch is in flight; batch number b works after
\* b - 1 elapsed delays; while it runs, the u16 index and the failure list
\* stay as they were at its start; the run ends without a further delay.
C16_BatchesAndDelays ==
  program = "downloader" =>
    /\ (fresh # {} \/ pending # {} \/ DOMAIN ready # {}) =>
         pc \in {"fetching", "panicked"}
    /\ pc = "fetching" =>
         /\ sleeps = batches - 1
         /\ index = (batches - 1) % U16Modulus
         /\ error_urls = (IF batches = 1 THEN <<>> ELSE urls)
    /\ pc = "sleeping" => (sleeps = batches - 1 /\ LoopCondition)
    /\ pc = "done" => sleeps = batches - 1

\* A fetch of the first retry batch is in flight, one delay after the first
\* batch, while another locator of the batch waits for its turn to be read.
C16_Witness ==
  /\ program = "downloader"
  /\ pc = "fetching"
  /\ batches = 2
  /\ sleeps = 1
  /\ pending # {}
  /\ Len(urls) = 2

\* The file for locator k is written in full.
Written(k) == last[k] = "Written" /\ FilesOf(k) # {}

\* C17: when download has returned, every locator of the range has a written
\* file, or is terminal NoData, or is in the returned list, and only one of
\* the three.
C17_NothingLost ==
  (program = "downloader" /\ pc = "done") =>
    \A k \in DOMAIN all :
      Cardinality({c \in {"file", "nodata", "failed"} :
                     \/ c = "file" /\ Written(k)
                     \/ c = "nodata" /\ k \in NoData
                     \/ c = "failed" /\ all[k] \in Range(error_urls)}) = 1

\* C18: with failures in every attempt the loop runs retry_count retry
\* batches and stops: index never overflows, no more than 1 + retry_count
\* batches are run, and a run that ends with failures has run all of them.
C18_RetryLoopStops ==
  program = "downloader" =>
    /\ ~(pc = "panicked" /\ panic = "overflow")
    /\ batches <= 1 + retry_count
    /\ (pc = "done" /\ error_urls # <<>>) => batches = 1 + retry_count

\* The positions in all of the locators of a list, in list order.
PositionsOf(seq) == [i \in DOMAIN seq |-> IndexIn(all, seq[i])]

Ascending(p) == \A i \in DOMAIN p : \A j \in DOMAIN p : i < j => p[i] < p[j]

\* C19: the failed locators a batch has yielded so far, and the list
\* download_urls returns, are in the order of build_urls and hold no locator
\* twice, whatever the order in which the fetches finish.
C19_FailuresInOrder ==
  program = "downloader" =>
    /\ Ascending(PositionsOf(FilterSome(collected)))
    /\ Returned => Ascending(PositionsOf(error_urls))

\* A failed fetch has finished before an older fetch of its batch that is
\* still in flight, and its locator is held back.
C19_Witness ==
  /\ program = "downloader"
  /\ pc = "fetching"
  /\ \E i \in DOMAIN ready : ready[i] # NoneV /\ (i - 1) \in pending

\* The characters of a body that start at byte 6 or later and end before
\* its last byte
Inside(body) ==
  {k \in DOMAIN body : /\ ByteLen(SubSeq(body, 1, k - 1)) >= 6
                       /\ ByteLen(SubSeq(body, 1, k)) <= ByteLen(body) - 1}

Payload(body) ==
  IF Inside(body) = {} THEN <<>>
  ELSE SubSeq(body, CHOOSE k \in Inside(body) : k - 1 \notin Inside(body),
                    CHOOSE k \in Inside(body) : k + 1 \notin Inside(body))

\* A metadata response that carries the payload: status 200, readable, and
\* with an envelope of 6 bytes before the payload and 1 byte behind it.
MetaSuccess(resp) ==
  /\ resp.kind = "Http" /\ resp.status = 200 /\ resp.textOk
  /\ ByteLen(resp.body) = 6 + ByteLen(Payload(resp.body)) + 1

\* A metadata response that gives nothing.
MetaFailure(resp) ==
  resp.kind = "Err" \/ resp.status # 200 \/ ~resp.textOk

\* C20: download_and_retry makes at most retry_count requests; it returns
\* Some only for the first successful one, which is its last request; it
\* returns None only after retry_count requests that all failed, so with
\* retry_count = 0 it makes no request and returns None.
C20_MetaRetry ==
  program = "meta" =>
    /\ Len(attempts) <= retry_count
    /\ \A i \in DOMAIN attempts :
         i < Len(attempts) => MetaFailure(attempts[i])
    /\ (pc = "m_done" /\ meta_data.some) =>
         /\ attempts # <<>>
         /\ MetaSuccess(attempts[Len(attempts)])
         /\ meta_data.value = Payload(attempts[Len(attempts)].body)
    /\ (pc = "m_done" /\ ~meta_data.some) =>
         /\ Len(attempts) = retry_count
         /\ \A i \in DOMAIN attempts : MetaFailure(attempts[i])
    /\ retry_count = 0 => attempts = <<>>

\* The second of three allowed requests succeeded after a failed first one.
C20_Witness ==
  /\ program = "meta"
  /\ pc = "m_done"
  /\ retry_count = 3
  /\ Len(attempts) = 2
  /\ meta_data.some

====
